---- MODULE Spec2Model ----
(***************************************************************************)
(* Model of the Monad wallet command-line tool (src/src/index.ts):         *)
(* MonadWalletManager.sendMonad, logTransaction, updateTransactionStatus   *)
(* and getTransactionHistory, run by several tool instances (operating     *)
(* system processes) that share one ledger file.                           *)
(*                                                                         *)
(* Each action is one continuation of the async code: everything the       *)
(* JavaScript runs between the completion of one awaited call and the      *)
(* start of the next await.  Other instances interleave only at awaits.    *)
(***************************************************************************)
EXTENDS Integers, Sequences, FiniteSets, TLC

\* ------------------------------------------------------------------ bounds
\* Number of submissions the network accepts in one run of the model.
MaxTx == 2
\* Value of Date.now() at the first read; every read advances the clock.
Epoch == 100
\* Fraction digits of one whole token (viem uses 18; scaled down so that
\* amounts fit TLC's 32-bit integers).
Decimals == 1

\* ------------------------------------------------------- program constants
GAS_LIMIT == 21000
\* Hex digits of an address and of a private key in the dispatcher's patterns.
AddressDigits == 40
KeyDigits == 64

\* The tool instances (operating system processes) sharing the ledger file.
Procs == {"A", "B"}

\* ------------------------------------------------------------------ inputs
\* Strings the dispatcher matches are sequences of characters.
\* "0x" followed by n times the character c.
Hex0x(n, c) == <<"0", "x">> \o [i \in 1..n |-> c]

\* Private keys a caller may pass: one well-formed, one malformed ("0xZZ...").
GoodKey == Hex0x(KeyDigits, "a")
BadKey == Hex0x(KeyDigits, "Z")
Keys == {GoodKey, BadKey}
\* Addresses: one well-formed, one malformed ("0xZZ...").
GoodAddress == Hex0x(AddressDigits, "b")
BadAddress == Hex0x(AddressDigits, "Z")
Recipients == {GoodAddress}
\* Decimal amount strings, as sequences of characters: "1.5" and "2".
Amounts == {<<"1", ".", "5">>, <<"2">>}
\* Gas prices the node may answer.
GasPrices == {1, 2}
\* Receipt statuses viem reports: 'success' | 'reverted'.
ReceiptStatuses == {"success", "reverted"}

\* --------------------------------------------------------- pure functions
\* privateKeyToAccount: throws on a malformed key.
IsPrivateKey(k) == k = GoodKey

\* privateKeyToAccount(key).address
AddressOf(k) == IF k = GoodKey THEN "0xSENDER" ELSE "0x"

DigitVal(c) ==
  CASE c = "0" -> 0 [] c = "1" -> 1 [] c = "2" -> 2 [] c = "3" -> 3
    [] c = "4" -> 4 [] c = "5" -> 5 [] c = "6" -> 6 [] c = "7" -> 7
    [] c = "8" -> 8 [] c = "9" -> 9

RECURSIVE DigitsToNat(_)
DigitsToNat(d) ==
  IF d = << >> THEN 0
  ELSE DigitsToNat(SubSeq(d, 1, Len(d) - 1)) * 10 + DigitVal(d[Len(d)])

\* Position of the decimal point, Len+1 when there is none.
DotPos(s) ==
  IF \E i \in 1..Len(s) : s[i] = "."
  THEN CHOOSE i \in 1..Len(s) : s[i] = "."
  ELSE Len(s) + 1

RECURSIVE PadEnd(_, _)
PadEnd(d, n) == IF Len(d) >= n THEN d ELSE PadEnd(Append(d, "0"), n)

\* parseEther(amount): the integer digits followed by the fraction digits
\* padded to Decimals places, read as one integer of smallest units.
ParseEther(s) ==
  LET integer == SubSeq(s, 1, DotPos(s) - 1)
      fraction == SubSeq(s, DotPos(s) + 1, Len(s))
  IN DigitsToNat(integer \o PadEnd(fraction, Decimals))

\* const gasCost = gasPrice * this.GAS_LIMIT
GasCost(price) == price * GAS_LIMIT

\* const totalRequired = parseEther(amount) + gasCost
TotalRequired(amt, price) == ParseEther(amt) + GasCost(price)

\* Variant: the comparison is off by one smallest unit.
InsufficientOffByOne(bal, total) == bal < total - 1

\* Variant: the comparison is strict the other way (equality is rejected).
InsufficientOrEqual(bal, total) == bal <= total

\* if (balance < totalRequired) throw
Insufficient(bal, total) == bal < total

\* Balances the node may answer, as offsets from the total a transfer needs.
BalanceOffsets == {-1, 0, 1}

\* JavaScript truthiness of a string value.
Truthy(v) == v # ""

\* receipt.status ? 'confirmed' : 'failed'
StatusOf(receiptStatus) == IF Truthy(receiptStatus) THEN "confirmed" ELSE "failed"

\* Variant: the record is created already confirmed.
NewTxConfirmed(h, now, from, to, amt) ==
  [id |-> h, timestamp |-> now, sender |-> from, recipient |-> to,
   amount |-> amt, status |-> "confirmed"]

\* The MonadTransaction object literal built by sendMonad.
NewTx(h, now, from, to, amt) ==
  [id |-> h, timestamp |-> now, sender |-> from, recipient |-> to,
   amount |-> amt, status |-> "pending"]

\* JSON.stringify(transactions, null, 2): one entry per record, its field
\* values in declaration order.
Stringify(txs) ==
  [i \in 1..Len(txs) |->
     <<txs[i].id, txs[i].timestamp, txs[i].sender, txs[i].recipient,
       txs[i].amount, txs[i].status>>]

\* JSON.parse(data)
Parse(data) ==
  [i \in 1..Len(data) |->
     [id |-> data[i][1], timestamp |-> data[i][2], sender |-> data[i][3],
      recipient |-> data[i][4], amount |-> data[i][5], status |-> data[i][6]]]

\* transactions.findIndex(tx => tx.id === txId), 1-based; 0 for -1.
FindIndex(txs, txId) ==
  IF \E i \in 1..Len(txs) : txs[i].id = txId
  THEN CHOOSE i \in 1..Len(txs) :
         txs[i].id = txId /\ \A j \in 1..(i - 1) : txs[j].id # txId
  ELSE 0

\* Variant: the assignment is lost.
SetStatusLost(txs, idx, status) == txs

\* Variant: the status of every record is set.
SetStatusAll(txs, idx, status) == [i \in 1..Len(txs) |-> [txs[i] EXCEPT !.status = status]]

\* transactions[txIndex].status = status
SetStatus(txs, idx, status) == [txs EXCEPT ![idx].status = status]

\* new Error(`Transaction failed: ${error.message}`)
Wrapped(cause) == [kind |-> "error", prefix |-> "Transaction failed: ", cause |-> cause]

Returned(h) == [kind |-> "ok", id |-> h]

NoResult == [kind |-> "none"]

\* Value of `tx` and of `receipt` before they are assigned.
NoTx == NewTx(0, 0, "", "", << >>)
NoReceipt == "none"

ErrInsufficient == "Insufficient balance for transaction and gas fees"
ErrKey == "invalid private key"
ErrTransport == "request failed"

\* ------------------------------------------------------------------- state
VARIABLES
  pc,            \* per instance: the await the invocation is suspended at
  senderKey, recipient, amount,   \* arguments of sendMonad
  gasPrice, balance,              \* answers of the node (-1: not yet answered)
  hash,                           \* id returned by sendTransaction (0: none)
  tx,                             \* the record passed to logTransaction
  receipt,                        \* receipt.status of the awaited receipt
  transactions,                   \* the array loaded by the ledger operation
  newStatus,                      \* status argument of updateTransactionStatus
  result,                         \* how the invocation ended
  errLog,                         \* console.error messages of the invocation
  sendCalls,                      \* sendTransaction calls of the invocation
  trace,                          \* remote and ledger calls of the invocation, in order
  fileState,                      \* ledger file: "absent" | "ok" | "corrupt"
  fileData,                       \* ledger file content when "ok"
  nextId,                         \* next id the network assigns
  clock,                          \* Date.now()
  interleaved,                    \* history: two invocations have overlapped
  argv                            \* process.argv from index 2 on

locals == <<senderKey, recipient, amount, gasPrice, balance, hash, tx,
            receipt, transactions, newStatus, result, errLog, sendCalls, trace>>
file == <<fileState, fileData>>
vars == <<pc, locals, file, nextId, clock, interleaved, argv>>

TypeOK ==
  /\ pc \in [Procs -> {"idle", "awaitGasPrice", "awaitBalance", "awaitSend",
                       "awaitLogRead", "awaitLogWrite", "awaitReceipt",
                       "awaitUpdRead", "awaitUpdWrite", "done",
                       "awaitCheckBalance", "awaitHistory"}]
  /\ senderKey \in [Procs -> Keys]
  /\ recipient \in [Procs -> Recipients]
  /\ amount \in [Procs -> Amounts]
  /\ hash \in [Procs -> 0..MaxTx]
  /\ receipt \in [Procs -> ReceiptStatuses \cup {NoReceipt}]
  /\ newStatus \in [Procs -> {"pending", "confirmed", "failed"}]
  /\ sendCalls \in [Procs -> 0..1]
  /\ fileState \in {"absent", "ok", "corrupt"}
  /\ nextId \in 1..(MaxTx + 1)
  /\ interleaved \in BOOLEAN

Init ==
  /\ pc = [p \in Procs |-> "idle"]
  /\ senderKey = [p \in Procs |-> GoodKey]
  /\ recipient = [p \in Procs |-> GoodAddress]
  /\ amount = [p \in Procs |-> <<"2">>]
  /\ gasPrice = [p \in Procs |-> -1]
  /\ balance = [p \in Procs |-> -1]
  /\ hash = [p \in Procs |-> 0]
  /\ tx = [p \in Procs |-> NoTx]
  /\ receipt = [p \in Procs |-> NoReceipt]
  /\ transactions = [p \in Procs |-> << >>]
  /\ newStatus = [p \in Procs |-> "pending"]
  /\ result = [p \in Procs |-> NoResult]
  /\ errLog = [p \in Procs |-> {}]
  /\ sendCalls = [p \in Procs |-> 0]
  /\ trace = [p \in Procs |-> << >>]
  /\ fileState = "absent"
  /\ fileData = << >>
  /\ nextId = 1
  /\ clock = Epoch
  /\ interleaved = FALSE
  /\ argv = [p \in Procs |-> << >>]

\* The instance is inside an invocation of sendMonad.
Running(q) == pc[q] \notin {"idle", "done"}

\* Invocations that may still submit.
BeforeSubmit == {q \in Procs : pc[q] \in {"awaitGasPrice", "awaitBalance", "awaitSend"}}

\* The invocation ends by throwing the wrapped error (the outer catch).
Throw(p, cause) ==
  /\ pc' = [pc EXCEPT ![p] = "done"]
  /\ result' = [result EXCEPT ![p] = Wrapped(cause)]

\* The invocation ends by returning the hash.
Return(p) ==
  /\ pc' = [pc EXCEPT ![p] = "done"]
  /\ result' = [result EXCEPT ![p] = Returned(hash[p])]

\* The invocation calls the remote node or the ledger store.
Call(p, name) == trace' = [trace EXCEPT ![p] = Append(@, name)]

\* gasPrice, gasCost, balance and totalRequired are not read again once
\* sendTransaction has answered: the model forgets them.
AfterCheck(p) ==
  /\ gasPrice' = [gasPrice EXCEPT ![p] = -1]
  /\ balance' = [balance EXCEPT ![p] = -1]

\* A ledger operation returns: its parameters and its loaded array go out
\* of scope.
LeaveStore(p) ==
  /\ tx' = [tx EXCEPT ![p] = NoTx]
  /\ newStatus' = [newStatus EXCEPT ![p] = "pending"]
  /\ transactions' = [transactions EXCEPT ![p] = << >>]

\* A tool instance is started with the transfer command: sendMonad derives
\* the account, creates the wallet client and asks for the gas price.
Start(p, key, to, amt) ==
  /\ pc[p] \in {"idle", "done"}
  /\ nextId + Cardinality(BeforeSubmit) <= MaxTx
  /\ senderKey' = [senderKey EXCEPT ![p] = key]
  /\ recipient' = [recipient EXCEPT ![p] = to]
  /\ amount' = [amount EXCEPT ![p] = amt]
  /\ gasPrice' = [gasPrice EXCEPT ![p] = -1]
  /\ balance' = [balance EXCEPT ![p] = -1]
  /\ hash' = [hash EXCEPT ![p] = 0]
  /\ tx' = [tx EXCEPT ![p] = NoTx]
  /\ receipt' = [receipt EXCEPT ![p] = NoReceipt]
  /\ transactions' = [transactions EXCEPT ![p] = << >>]
  /\ newStatus' = [newStatus EXCEPT ![p] = "pending"]
  /\ errLog' = [errLog EXCEPT ![p] = {}]
  /\ sendCalls' = [sendCalls EXCEPT ![p] = 0]
  /\ IF IsPrivateKey(key)
     THEN /\ pc' = [pc EXCEPT ![p] = "awaitGasPrice"]
          /\ result' = [result EXCEPT ![p] = NoResult]
          /\ trace' = [trace EXCEPT ![p] = <<"getGasPrice">>]
     ELSE /\ Throw(p, ErrKey)
          /\ trace' = [trace EXCEPT ![p] = << >>]
  /\ interleaved' = (interleaved \/ \E q \in Procs \ {p} : Running(q))
  /\ argv' = [argv EXCEPT ![p] = <<"transfer", key, to, amt>>]
  /\ UNCHANGED <<file, nextId, clock>>

\* getGasPrice answers; getBalance is called.
GasPriceReturns(p, price) ==
  /\ pc[p] = "awaitGasPrice"
  /\ gasPrice' = [gasPrice EXCEPT ![p] = price]
  /\ pc' = [pc EXCEPT ![p] = "awaitBalance"]
  /\ Call(p, "getBalance")
  /\ UNCHANGED <<senderKey, recipient, amount, balance, hash, tx, receipt, transactions,
                 newStatus, result, errLog, sendCalls, file, nextId, clock, interleaved, argv>>

GasPriceFails(p) ==
  /\ pc[p] = "awaitGasPrice"
  /\ Throw(p, ErrTransport)
  /\ UNCHANGED <<senderKey, recipient, amount, gasPrice, balance, hash, tx,
                 receipt, transactions, newStatus, errLog, sendCalls, file, nextId, clock, interleaved, argv,
                 trace>>

\* getBalance answers; the affordability check either throws or calls
\* sendTransaction.
BalanceReturns(p, offset) ==
  /\ pc[p] = "awaitBalance"
  /\ LET totalRequired == TotalRequired(amount[p], gasPrice[p])
         bal == totalRequired + offset
     IN /\ balance' = [balance EXCEPT ![p] = bal]
        /\ IF Insufficient(bal, totalRequired)
           THEN /\ Throw(p, ErrInsufficient)
                /\ UNCHANGED <<sendCalls, trace>>
           ELSE /\ pc' = [pc EXCEPT ![p] = "awaitSend"]
                /\ sendCalls' = [sendCalls EXCEPT ![p] = @ + 1]
                /\ Call(p, "sendTransaction")
                /\ UNCHANGED result
  /\ UNCHANGED <<senderKey, recipient, amount, gasPrice, hash, tx, receipt, transactions,
                 newStatus, errLog, file, nextId, clock, interleaved, argv>>

BalanceFails(p) ==
  /\ pc[p] = "awaitBalance"
  /\ Throw(p, ErrTransport)
  /\ UNCHANGED <<senderKey, recipient, amount, gasPrice, balance, hash, tx,
                 receipt, transactions, newStatus, errLog, sendCalls, file, nextId, clock, interleaved, argv,
                 trace>>

\* Variant: the receipt is awaited without the pending record being logged.
SendReturnsUnlogged(p) ==
  /\ pc[p] = "awaitSend"
  /\ nextId <= MaxTx
  /\ hash' = [hash EXCEPT ![p] = nextId]
  /\ nextId' = nextId + 1
  /\ pc' = [pc EXCEPT ![p] = "awaitReceipt"]
  /\ AfterCheck(p)
  /\ Call(p, "waitForTransactionReceipt")
  /\ UNCHANGED <<senderKey, recipient, amount, tx, receipt, transactions, newStatus,
                 result, errLog, sendCalls, file, clock, interleaved, argv>>

\* sendTransaction answers with the id the network assigned; logTransaction
\* is called with the pending record and starts reading the ledger file.
SendReturns(p) ==
  /\ pc[p] = "awaitSend"
  /\ nextId <= MaxTx
  /\ hash' = [hash EXCEPT ![p] = nextId]
  /\ nextId' = nextId + 1
  /\ tx' = [tx EXCEPT ![p] =
       NewTx(nextId, clock, AddressOf(senderKey[p]), recipient[p], amount[p])]
  /\ clock' = clock + 1
  /\ pc' = [pc EXCEPT ![p] = "awaitLogRead"]
  /\ AfterCheck(p)
  /\ Call(p, "logTransaction")
  /\ UNCHANGED <<senderKey, recipient, amount, receipt, transactions,
                 newStatus, result, errLog, sendCalls, file, interleaved, argv>>

\* Variant: a rejected submission is ignored and the receipt is awaited.
SendFailsThenWaits(p) ==
  /\ pc[p] = "awaitSend"
  /\ pc' = [pc EXCEPT ![p] = "awaitReceipt"]
  /\ AfterCheck(p)
  /\ Call(p, "waitForTransactionReceipt")
  /\ UNCHANGED <<senderKey, recipient, amount, hash, tx, receipt, transactions,
                 newStatus, result, errLog, sendCalls, file, nextId, clock,
                 interleaved, argv>>

SendFails(p) ==
  /\ pc[p] = "awaitSend"
  /\ Throw(p, ErrTransport)
  /\ AfterCheck(p)
  /\ UNCHANGED <<senderKey, recipient, amount, hash, tx,
                 receipt, transactions, newStatus, errLog, sendCalls, file, nextId, clock, interleaved, argv,
                 trace>>

\* Variant: only the newest record is returned.
GetNewestTransaction(readOk) ==
  IF readOk /\ fileState = "ok" /\ fileData # << >>
  THEN <<Parse(fileData)[Len(fileData)]>> ELSE << >>

\* getTransactionHistory: the parsed file, or [] when readFile or JSON.parse
\* throws (file absent, unreadable or not JSON).  `readOk` is whether the
\* read of an intact file succeeds this time.
GetTransactionHistory(readOk) ==
  IF readOk /\ fileState = "ok" THEN Parse(fileData) ELSE << >>

\* Variant: the loaded array is dropped.
PushOnly(txs, t) == <<t>>

\* Variant: the record is added in front (unshift).
PushFront(txs, t) == <<t>> \o txs

\* A push that adds the record twice.
PushTwice(txs, t) == Append(Append(txs, t), t)

\* transactions.push(tx)
Push(txs, t) == Append(txs, t)

\* txIndex !== -1
Found(idx) == idx # 0

\* A writeFile that completes replaces the file content.
WriteFile(data) ==
  /\ fileState' = "ok"
  /\ fileData' = data

\* A writeFile that throws leaves the file as it was, or truncated when the
\* failure came after the file was opened for writing.
WriteFileThrows(truncated) ==
  IF truncated
  THEN fileState' = "corrupt" /\ fileData' = << >>
  ELSE UNCHANGED file

\* console.error(message, error) in a catch block of the ledger store.
Logged(p, message) == errLog' = [errLog EXCEPT ![p] = @ \cup {message}]

\* logTransaction: the read of the ledger completes (or fails); the record
\* is pushed and writeFile is called.
LogReadReturns(p, readOk) ==
  /\ pc[p] = "awaitLogRead"
  /\ transactions' = [transactions EXCEPT ![p] =
       Push(GetTransactionHistory(readOk), tx[p])]
  /\ pc' = [pc EXCEPT ![p] = "awaitLogWrite"]
  /\ UNCHANGED <<senderKey, recipient, amount, gasPrice, balance, hash, tx,
                 receipt, newStatus, result, errLog, sendCalls, file, nextId,
                 clock, interleaved, argv,
                 trace>>

\* logTransaction: writeFile completes; sendMonad waits for the receipt.
LogWriteReturns(p) ==
  /\ pc[p] = "awaitLogWrite"
  /\ WriteFile(Stringify(transactions[p]))
  /\ LeaveStore(p)
  /\ pc' = [pc EXCEPT ![p] = "awaitReceipt"]
  /\ Call(p, "waitForTransactionReceipt")
  /\ UNCHANGED <<senderKey, recipient, amount, gasPrice, balance, hash,
                 receipt, result, errLog, sendCalls, nextId, clock, interleaved, argv>>

\* Variant: logTransaction has no catch block, the write error propagates.
LogWriteFailsUncaught(p, truncated) ==
  /\ pc[p] = "awaitLogWrite"
  /\ WriteFileThrows(truncated)
  /\ LeaveStore(p)
  /\ Throw(p, ErrTransport)
  /\ UNCHANGED <<senderKey, recipient, amount, gasPrice, balance, hash,
                 receipt, errLog, sendCalls, nextId, clock, interleaved, argv,
                 trace>>

\* logTransaction: writeFile throws; the catch block logs and returns, and
\* sendMonad waits for the receipt.
LogWriteFails(p, truncated) ==
  /\ pc[p] = "awaitLogWrite"
  /\ WriteFileThrows(truncated)
  /\ Logged(p, "Failed to log transaction:")
  /\ LeaveStore(p)
  /\ pc' = [pc EXCEPT ![p] = "awaitReceipt"]
  /\ Call(p, "waitForTransactionReceipt")
  /\ UNCHANGED <<senderKey, recipient, amount, gasPrice, balance, hash,
                 receipt, result, sendCalls, nextId, clock, interleaved, argv>>

\* waitForTransactionReceipt answers; updateTransactionStatus is called and
\* starts reading the ledger file.
ReceiptReturns(p, status) ==
  /\ pc[p] = "awaitReceipt"
  /\ receipt' = [receipt EXCEPT ![p] = status]
  /\ newStatus' = [newStatus EXCEPT ![p] = StatusOf(status)]
  /\ pc' = [pc EXCEPT ![p] = "awaitUpdRead"]
  /\ Call(p, "updateTransactionStatus")
  /\ UNCHANGED <<senderKey, recipient, amount, gasPrice, balance, hash, tx,
                 transactions, result, errLog, sendCalls, file, nextId, clock, interleaved, argv>>

\* waitForTransactionReceipt rejects: the outer catch rethrows.
ReceiptFails(p) ==
  /\ pc[p] = "awaitReceipt"
  /\ Throw(p, ErrTransport)
  /\ UNCHANGED <<senderKey, recipient, amount, gasPrice, balance, hash, tx,
                 receipt, transactions, newStatus, errLog, sendCalls, file,
                 nextId, clock, interleaved, argv,
                 trace>>

\* Variant: while the id is not found the update keeps waiting for it.
UpdReadWaits(p, readOk) ==
  /\ pc[p] = "awaitUpdRead"
  /\ LET loaded == GetTransactionHistory(readOk)
         txIndex == FindIndex(loaded, hash[p])
     IN IF Found(txIndex)
        THEN /\ transactions' = [transactions EXCEPT ![p] =
                  SetStatus(loaded, txIndex, newStatus[p])]
             /\ pc' = [pc EXCEPT ![p] = "awaitUpdWrite"]
        ELSE UNCHANGED <<transactions, pc>>
  /\ UNCHANGED <<senderKey, recipient, amount, gasPrice, balance, hash, tx,
                 newStatus, result, receipt, errLog, sendCalls, file, nextId,
                 clock, interleaved, argv, trace>>

\* Variant: a record that is not found is created with the new status.
UpdReadUpserts(p, readOk) ==
  /\ pc[p] = "awaitUpdRead"
  /\ LET loaded == GetTransactionHistory(readOk)
         txIndex == FindIndex(loaded, hash[p])
         created == [NewTx(hash[p], clock, AddressOf(senderKey[p]), recipient[p],
                           amount[p]) EXCEPT !.status = newStatus[p]]
     IN transactions' = [transactions EXCEPT ![p] =
          IF Found(txIndex) THEN SetStatus(loaded, txIndex, newStatus[p])
          ELSE Push(loaded, created)]
  /\ pc' = [pc EXCEPT ![p] = "awaitUpdWrite"]
  /\ UNCHANGED <<senderKey, recipient, amount, gasPrice, balance, hash, tx,
                 newStatus, result, receipt, errLog, sendCalls, file, nextId,
                 clock, interleaved, argv, trace>>

\* Variant: an id that is not found is written back anyway (no guard on
\* txIndex).
UpdReadAlwaysWrites(p, readOk) ==
  /\ pc[p] = "awaitUpdRead"
  /\ LET loaded == GetTransactionHistory(readOk)
         txIndex == FindIndex(loaded, hash[p])
     IN transactions' = [transactions EXCEPT ![p] =
          IF Found(txIndex) THEN SetStatus(loaded, txIndex, newStatus[p]) ELSE loaded]
  /\ pc' = [pc EXCEPT ![p] = "awaitUpdWrite"]
  /\ UNCHANGED <<senderKey, recipient, amount, gasPrice, balance, hash, tx,
                 newStatus, result, receipt, errLog, sendCalls, file, nextId,
                 clock, interleaved, argv,
                 trace>>

\* updateTransactionStatus: the read completes (or fails); when the id is
\* found its status is set and writeFile is called, otherwise the function
\* returns and sendMonad returns the hash.
UpdReadReturns(p, readOk) ==
  /\ pc[p] = "awaitUpdRead"
  /\ LET loaded == GetTransactionHistory(readOk)
         txIndex == FindIndex(loaded, hash[p])
     IN IF Found(txIndex)
        THEN /\ transactions' = [transactions EXCEPT ![p] =
                  SetStatus(loaded, txIndex, newStatus[p])]
             /\ pc' = [pc EXCEPT ![p] = "awaitUpdWrite"]
             /\ UNCHANGED result
             /\ UNCHANGED <<tx, newStatus>>
        ELSE /\ LeaveStore(p)
             /\ Return(p)
  /\ UNCHANGED <<senderKey, recipient, amount, gasPrice, balance, hash,
                 receipt, errLog, sendCalls, file, nextId, clock, interleaved, argv,
                 trace>>

\* updateTransactionStatus: writeFile completes; sendMonad returns the hash.
UpdWriteReturns(p) ==
  /\ pc[p] = "awaitUpdWrite"
  /\ WriteFile(Stringify(transactions[p]))
  /\ LeaveStore(p)
  /\ Return(p)
  /\ UNCHANGED <<senderKey, recipient, amount, gasPrice, balance, hash,
                 receipt, errLog, sendCalls, nextId, clock, interleaved, argv,
                 trace>>

\* updateTransactionStatus: writeFile throws; the catch block logs, and
\* sendMonad returns the hash.
UpdWriteFails(p, truncated) ==
  /\ pc[p] = "awaitUpdWrite"
  /\ WriteFileThrows(truncated)
  /\ Logged(p, "Failed to update transaction status:")
  /\ LeaveStore(p)
  /\ Return(p)
  /\ UNCHANGED <<senderKey, recipient, amount, gasPrice, balance, hash,
                 receipt, sendCalls, nextId, clock, interleaved, argv,
                 trace>>

Next ==
  \E p \in Procs :
    \/ \E key \in Keys, to \in Recipients, amt \in Amounts : Start(p, key, to, amt)
    \/ \E price \in GasPrices : GasPriceReturns(p, price)
    \/ GasPriceFails(p)
    \/ \E offset \in BalanceOffsets : BalanceReturns(p, offset)
    \/ BalanceFails(p)
    \/ SendReturns(p)
    \/ SendFails(p)
    \/ \E readOk \in BOOLEAN : LogReadReturns(p, readOk)
    \/ LogWriteReturns(p)
    \/ \E truncated \in BOOLEAN : LogWriteFails(p, truncated)
    \/ \E status \in ReceiptStatuses : ReceiptReturns(p, status)
    \/ ReceiptFails(p)
    \/ \E readOk \in BOOLEAN : UpdReadReturns(p, readOk)
    \/ UpdWriteReturns(p)
    \/ \E truncated \in BOOLEAN : UpdWriteFails(p, truncated)

Spec == Init /\ [][Next]_vars

\* A step that the code or an answer other than the receipt lets the
\* invocation take: a remote query or submission answers, a file read or
\* write completes.
Answered(p) ==
  \/ \E price \in GasPrices : GasPriceReturns(p, price)
  \/ GasPriceFails(p)
  \/ \E offset \in BalanceOffsets : BalanceReturns(p, offset)
  \/ BalanceFails(p)
  \/ SendReturns(p)
  \/ SendFails(p)
  \/ \E readOk \in BOOLEAN : LogReadReturns(p, readOk)
  \/ LogWriteReturns(p)
  \/ \E truncated \in BOOLEAN : LogWriteFails(p, truncated)
  \/ \E readOk \in BOOLEAN : UpdReadReturns(p, readOk)
  \/ UpdWriteReturns(p)
  \/ \E truncated \in BOOLEAN : UpdWriteFails(p, truncated)

\* Every awaited call other than the receipt wait is eventually answered.
\* Nothing is assumed about the receipt: the network may never finalize.
\* Two instances transferring one amount: which amount is sent has no
\* part in how an invocation proceeds once the balance is compared.
LiveAmount == <<"2">>

LiveNext ==
  \E p \in Procs :
    \/ \E key \in Keys, to \in Recipients : Start(p, key, to, LiveAmount)
    \/ \E price \in GasPrices : GasPriceReturns(p, price)
    \/ GasPriceFails(p)
    \/ \E offset \in BalanceOffsets : BalanceReturns(p, offset)
    \/ BalanceFails(p)
    \/ SendReturns(p)
    \/ SendFails(p)
    \/ \E readOk \in BOOLEAN : LogReadReturns(p, readOk)
    \/ LogWriteReturns(p)
    \/ \E truncated \in BOOLEAN : LogWriteFails(p, truncated)
    \/ \E status \in ReceiptStatuses : ReceiptReturns(p, status)
    \/ ReceiptFails(p)
    \/ \E readOk \in BOOLEAN : UpdReadReturns(p, readOk)
    \/ UpdWriteReturns(p)
    \/ \E truncated \in BOOLEAN : UpdWriteFails(p, truncated)

LiveSpec == Init /\ [][LiveNext]_vars /\ \A p \in Procs : WF_vars(Answered(p))

\* Two instances on one ledger file whose reads and writes all succeed.
RaceNext ==
  \E p \in Procs :
    \/ \E key \in Keys, to \in Recipients, amt \in Amounts : Start(p, key, to, amt)
    \/ \E price \in GasPrices : GasPriceReturns(p, price)
    \/ GasPriceFails(p)
    \/ \E offset \in BalanceOffsets : BalanceReturns(p, offset)
    \/ BalanceFails(p)
    \/ SendReturns(p)
    \/ SendFails(p)
    \/ LogReadReturns(p, TRUE)
    \/ LogWriteReturns(p)
    \/ \E status \in ReceiptStatuses : ReceiptReturns(p, status)
    \/ ReceiptFails(p)
    \/ UpdReadReturns(p, TRUE)
    \/ UpdWriteReturns(p)

RaceSpec == Init /\ [][RaceNext]_vars

\* ------------------------------------------------- the command dispatcher
Digits == {"0", "1", "2", "3", "4", "5", "6", "7", "8", "9"}
HexDigits == Digits \cup {"a", "b", "c", "d", "e", "f", "A", "B", "C", "D", "E", "F"}

\* A missing command-line argument (undefined).
Undefined == << >>

\* process.argv[i + 2]
Arg(args, i) == IF i <= Len(args) THEN args[i] ELSE Undefined

\* /^0x[a-fA-F0-9]{n}$/ with only the length and the prefix tested.
MatchesHexAnyChar(s, n) == Len(s) = n + 2 /\ s[1] = "0" /\ s[2] = "x"

\* s?.match(/^0x[a-fA-F0-9]{n}$/)
MatchesHex(s, n) ==
  /\ Len(s) = n + 2
  /\ s[1] = "0"
  /\ s[2] = "x"
  /\ \A i \in 3..Len(s) : s[i] \in HexDigits

AllDigits(s) == \A i \in 1..Len(s) : s[i] \in Digits

\* s?.match(/^\d*\.?\d+$/)
MatchesAmount(s) ==
  \E k \in 0..Len(s) :
    LET rest == SubSeq(s, k + 1, Len(s)) IN
      /\ AllDigits(SubSeq(s, 1, k))
      /\ \/ Len(rest) >= 1 /\ AllDigits(rest)
         \/ Len(rest) >= 2 /\ rest[1] = "." /\ AllDigits(Tail(rest))

\* value.toString() of a non-negative bigint.
RECURSIVE NatToDigits(_)
NatToDigits(n) ==
  IF n < 10 THEN <<CHOOSE c \in Digits : DigitVal(c) = n>>
  ELSE Append(NatToDigits(n \div 10), CHOOSE c \in Digits : DigitVal(c) = n % 10)

RECURSIVE PadStart(_, _)
PadStart(d, n) == IF Len(d) >= n THEN d ELSE PadStart(<<"0">> \o d, n)

\* fraction.replace(/(0+)$/, '')
RECURSIVE StripZeros(_)
StripZeros(d) ==
  IF d # << >> /\ d[Len(d)] = "0" THEN StripZeros(SubSeq(d, 1, Len(d) - 1)) ELSE d

\* viem's formatEther of a non-negative value.
FormatEther(value) ==
  LET display == PadStart(NatToDigits(value), Decimals)
      cut == Len(display) - Decimals
      integer == SubSeq(display, 1, cut)
      fraction == StripZeros(SubSeq(display, cut + 1, Len(display)))
  IN (IF integer = << >> THEN <<"0">> ELSE integer)
       \o (IF fraction = << >> THEN << >> ELSE <<".">> \o fraction)

ErrAddressFormat == "Invalid Monad address format"
ErrKeyFormat == "Invalid private key format"
ErrAmountFormat == "Invalid amount format"
ErrUnknownCommand == "Unknown command"

\* main's catch prints the message and exits with code 1.
Rejected(cause) == [kind |-> "error", prefix |-> "", cause |-> cause]
CheckFailed(cause) == [kind |-> "error", prefix |-> "Failed to check balance: ", cause |-> cause]
\* What the check and the history command print.
Balance(text) == [kind |-> "balance", text |-> text]
History(txs) == [kind |-> "history", txs |-> txs]

\* Command lines a user may type.
CliKeys == {GoodKey, BadKey, Undefined}
CliAddresses == {GoodAddress, BadAddress, Undefined}
CliAmounts == Amounts \cup {<<"1", ".">>, Undefined}
CliArgs ==
  {<<"check", a>> : a \in CliAddresses}
    \cup {<<"transfer", k, a, m>> : k \in CliKeys, a \in CliAddresses, m \in CliAmounts}
    \cup {<<"history">>, <<"bogus">>}
\* Balances the node may report to the check command, in wei.
CheckBalances == {0, 15, 20}

\* A new process: nothing of an earlier invocation is in memory.
NewProcess(p) ==
  /\ senderKey' = [senderKey EXCEPT ![p] = GoodKey]
  /\ recipient' = [recipient EXCEPT ![p] = GoodAddress]
  /\ amount' = [amount EXCEPT ![p] = <<"2">>]
  /\ gasPrice' = [gasPrice EXCEPT ![p] = -1]
  /\ balance' = [balance EXCEPT ![p] = -1]
  /\ hash' = [hash EXCEPT ![p] = 0]
  /\ tx' = [tx EXCEPT ![p] = NoTx]
  /\ receipt' = [receipt EXCEPT ![p] = NoReceipt]
  /\ transactions' = [transactions EXCEPT ![p] = << >>]
  /\ newStatus' = [newStatus EXCEPT ![p] = "pending"]
  /\ errLog' = [errLog EXCEPT ![p] = {}]
  /\ sendCalls' = [sendCalls EXCEPT ![p] = 0]

\* main throws before its first await: the catch prints and exits.
Exit1(p, args, cause) ==
  /\ NewProcess(p)
  /\ pc' = [pc EXCEPT ![p] = "done"]
  /\ result' = [result EXCEPT ![p] = Rejected(cause)]
  /\ trace' = [trace EXCEPT ![p] = << >>]
  /\ argv' = [argv EXCEPT ![p] = args]
  /\ UNCHANGED <<file, nextId, clock, interleaved>>

\* main calls an operation that needs no argument and awaits it.
Await(p, args, at, name) ==
  /\ NewProcess(p)
  /\ pc' = [pc EXCEPT ![p] = at]
  /\ result' = [result EXCEPT ![p] = NoResult]
  /\ trace' = [trace EXCEPT ![p] = <<name>>]
  /\ argv' = [argv EXCEPT ![p] = args]
  /\ UNCHANGED <<file, nextId, clock, interleaved>>

\* The tool is started with a command line: main runs to its first await.
Main(p, args) ==
  /\ pc[p] \in {"idle", "done"}
  /\ LET command == Arg(args, 1) IN
     CASE command = "check" ->
            IF ~MatchesHex(Arg(args, 2), AddressDigits)
            THEN Exit1(p, args, ErrAddressFormat)
            ELSE Await(p, args, "awaitCheckBalance", "getBalance")
       [] command = "transfer" ->
            IF ~MatchesHex(Arg(args, 2), KeyDigits)
            THEN Exit1(p, args, ErrKeyFormat)
            ELSE IF ~MatchesHex(Arg(args, 3), AddressDigits)
            THEN Exit1(p, args, ErrAddressFormat)
            ELSE IF ~MatchesAmount(Arg(args, 4))
            THEN Exit1(p, args, ErrAmountFormat)
            ELSE Start(p, Arg(args, 2), Arg(args, 3), Arg(args, 4))
       [] command = "history" ->
            Await(p, args, "awaitHistory", "getTransactionHistory")
       [] OTHER -> Exit1(p, args, ErrUnknownCommand)

\* checkBalance: getBalance answers and the formatted balance is printed.
CheckBalanceReturns(p, value) ==
  /\ pc[p] = "awaitCheckBalance"
  /\ pc' = [pc EXCEPT ![p] = "done"]
  /\ result' = [result EXCEPT ![p] = Balance(FormatEther(value))]
  /\ UNCHANGED <<senderKey, recipient, amount, gasPrice, balance, hash, tx, receipt,
                 transactions, newStatus, errLog, sendCalls, trace, file, nextId,
                 clock, interleaved, argv>>

\* checkBalance: getBalance rejects; the error is wrapped and main exits.
CheckBalanceFails(p) ==
  /\ pc[p] = "awaitCheckBalance"
  /\ pc' = [pc EXCEPT ![p] = "done"]
  /\ result' = [result EXCEPT ![p] = CheckFailed(ErrTransport)]
  /\ UNCHANGED <<senderKey, recipient, amount, gasPrice, balance, hash, tx, receipt,
                 transactions, newStatus, errLog, sendCalls, trace, file, nextId,
                 clock, interleaved, argv>>

\* The history command: getTransactionHistory answers and main prints it.
HistoryReturns(p, readOk) ==
  /\ pc[p] = "awaitHistory"
  /\ pc' = [pc EXCEPT ![p] = "done"]
  /\ result' = [result EXCEPT ![p] = History(GetTransactionHistory(readOk))]
  /\ UNCHANGED <<senderKey, recipient, amount, gasPrice, balance, hash, tx, receipt,
                 transactions, newStatus, errLog, sendCalls, trace, file, nextId,
                 clock, interleaved, argv>>

\* The instance whose command line is followed.
CliProcs == {"A"}

\* One tool instance as started from the command line.
CliNext ==
  \E p \in CliProcs :
    \/ \E args \in CliArgs : Main(p, args)
    \/ \E value \in CheckBalances : CheckBalanceReturns(p, value)
    \/ CheckBalanceFails(p)
    \/ \E readOk \in BOOLEAN : HistoryReturns(p, readOk)
    \/ \E price \in GasPrices : GasPriceReturns(p, price)
    \/ GasPriceFails(p)
    \/ \E offset \in BalanceOffsets : BalanceReturns(p, offset)
    \/ BalanceFails(p)
    \/ SendReturns(p)
    \/ SendFails(p)
    \/ \E readOk \in BOOLEAN : LogReadReturns(p, readOk)
    \/ LogWriteReturns(p)
    \/ \E truncated \in BOOLEAN : LogWriteFails(p, truncated)
    \/ \E status \in ReceiptStatuses : ReceiptReturns(p, status)
    \/ ReceiptFails(p)
    \/ \E readOk \in BOOLEAN : UpdReadReturns(p, readOk)
    \/ UpdWriteReturns(p)
    \/ \E truncated \in BOOLEAN : UpdWriteFails(p, truncated)

CliSpec == Init /\ [][CliNext]_vars

\* =================================================================== claims
\* What readAll() returns when its read succeeds.
Persisted == GetTransactionHistory(TRUE)

Terminal == {"confirmed", "failed"}

\* Indices of the records of `txs` whose id is `txId`.
Matches(txs, txId) == {i \in 1..Len(txs) : txs[i].id = txId}

\* Status of the first record with id `txId`, "absent" when there is none.
StatusAt(txs, txId) ==
  IF FindIndex(txs, txId) = 0 THEN "absent" ELSE txs[FindIndex(txs, txId)].status

\* The balance query of the invocation was answered.
BalanceKnown(p) == balance[p] >= 0

Required(p) == TotalRequired(amount[p], gasPrice[p])

\* C1: an invocation whose queried balance is strictly less than
\* parseEther(amount) + gasPrice * 21000 ends with the insufficient-funds
\* error and has made no sendTransaction call.
C1_InsufficientNeverSubmits ==
  \A p \in Procs :
    (BalanceKnown(p) /\ balance[p] < ParseEther(amount[p]) + gasPrice[p] * 21000)
      => /\ pc[p] = "done"
         /\ result[p] = Wrapped(ErrInsufficient)
         /\ sendCalls[p] = 0
         /\ hash[p] = 0

C1_Witness ==
  \E p \in Procs :
    /\ BalanceKnown(p)
    /\ balance[p] = Required(p) - 1
    /\ pc[p] = "done"
    /\ result[p] = Wrapped(ErrInsufficient)

\* C2 (as stated): whenever an invocation has returned an id, the ledger
\* contains exactly one record with that id and its status is confirmed or
\* failed.
C2_ReturnedIdRecordedTerminal ==
  \A p \in Procs :
    (pc[p] = "done" /\ result[p].kind = "ok")
      => /\ Cardinality(Matches(Persisted, result[p].id)) = 1
         /\ StatusAt(Persisted, result[p].id) \in Terminal

\* C2 (amended): the ledger never holds two records with the same returned
\* id, and an invocation that returns right after its status write completed
\* returns the id of exactly one record, whose status is confirmed or failed.
C2_ReturnAfterStatusWrite ==
  /\ [](\A p \in Procs : hash[p] # 0 => Cardinality(Matches(Persisted, hash[p])) <= 1)
  /\ [][\A p \in Procs :
          UpdWriteReturns(p)
            => /\ result'[p] = Returned(hash[p])
               /\ Cardinality(Matches(Persisted', hash[p])) = 1
               /\ StatusAt(Persisted', hash[p]) \in Terminal]_vars

C2_Witness ==
  \E p \in Procs :
    /\ pc[p] = "done"
    /\ result[p] = Returned(hash[p])
    /\ errLog[p] = {}
    /\ Cardinality(Matches(Persisted, hash[p])) = 1
    /\ StatusAt(Persisted, hash[p]) \in Terminal
    /\ Len(Persisted) = 2

\* The status the ledger should hold for a receipt.
Expected(receiptStatus) == IF receiptStatus = "success" THEN "confirmed" ELSE "failed"

\* C3: after a receipt was obtained the invocation returns the submitted id,
\* and the status stored for that id is failed for a reverted receipt and
\* confirmed for a successful one.
C3_RevertStoredAsFailed ==
  \A p \in Procs :
    (pc[p] = "done" /\ receipt[p] # NoReceipt)
      => /\ result[p] = Returned(hash[p])
         /\ StatusAt(Persisted, hash[p]) \in Terminal
              => StatusAt(Persisted, hash[p]) = Expected(receipt[p])

\* C5: once sendTransaction has returned an id, an invocation that ends,
\* ends by returning that id.
C5_SubmittedAlwaysReturnsId ==
  \A p \in Procs :
    (pc[p] = "done" /\ hash[p] # 0) => result[p] = Returned(hash[p])

\* C10: the affordability check is non-strict: a balance equal to or above
\* amount + gasPrice * 21000 passes the check and sendTransaction is called;
\* the insufficient-funds error is raised only for a strictly smaller balance.
C10_EqualBalanceSuffices ==
  \A p \in Procs :
    /\ (BalanceKnown(p) /\ balance[p] >= ParseEther(amount[p]) + gasPrice[p] * 21000)
         => sendCalls[p] = 1 /\ result[p] # Wrapped(ErrInsufficient)
    /\ result[p] = Wrapped(ErrInsufficient)
         => BalanceKnown(p) /\ balance[p] < ParseEther(amount[p]) + gasPrice[p] * 21000

C10_Witness ==
  \E p \in Procs :
    /\ amount[p] = <<"1", ".", "5">>
    /\ balance[p] = ParseEther(amount[p]) + gasPrice[p] * 21000
    /\ pc[p] = "awaitSend"
    /\ sendCalls[p] = 1

\* The step is taken by instance p, which was suspended at `at`.
Leaves(p, at) == pc[p] = at /\ pc'[p] # at

\* Every record of `old` is in `new`, in the same relative order.
KeepsRecords(old, new) ==
  /\ \A i \in 1..Len(old) : FindIndex(new, old[i].id) # 0
  /\ \A i, j \in 1..Len(old) :
       i < j => FindIndex(new, old[i].id) < FindIndex(new, old[j].id)

\* A status never changes from confirmed or failed to another value.
TerminalKept(old, new) ==
  \A id \in 1..MaxTx :
    (StatusAt(old, id) \in Terminal /\ StatusAt(new, id) # "absent")
      => StatusAt(new, id) = StatusAt(old, id)

\* C4 (as stated): over any interleaving of instances a record's status
\* starts as pending and, once confirmed or failed, never changes again.
C4_StatusNeverReverts ==
  [][/\ TerminalKept(Persisted, Persisted')
     /\ \A p \in Procs :
          LogWriteReturns(p) => StatusAt(Persisted', hash[p]) = "pending"]_vars

\* C4 (amended): a record is appended with status pending and never changes
\* from one of confirmed, failed to the other; as long as no two invocations
\* have overlapped, a confirmed or failed status also never goes back to
\* pending.
C4_StatusNeverRevertsSerial ==
  [][/\ \A id \in 1..MaxTx :
          (StatusAt(Persisted, id) \in Terminal /\ StatusAt(Persisted', id) \in Terminal)
            => StatusAt(Persisted', id) = StatusAt(Persisted, id)
     /\ ~interleaved' => TerminalKept(Persisted, Persisted')
     /\ \A p \in Procs :
          LogWriteReturns(p) => StatusAt(Persisted', hash[p]) = "pending"]_vars

C4_Witness ==
  /\ ~interleaved
  /\ Len(Persisted) = 2
  /\ Persisted[1].status \in Terminal
  /\ Persisted[2].status \in Terminal

\* C6: a failure of a ledger read or write in the append of the pending
\* record or in the status update is not propagated: the invocation goes on
\* with the following step and returns the submitted id.
C6_LedgerFailuresSwallowed ==
  [][\A p \in Procs :
       /\ Leaves(p, "awaitLogRead")
            => pc'[p] = "awaitLogWrite" /\ result'[p] = NoResult
       /\ Leaves(p, "awaitLogWrite")
            => pc'[p] = "awaitReceipt" /\ result'[p] = NoResult
       /\ Leaves(p, "awaitUpdRead")
            => \/ pc'[p] = "awaitUpdWrite" /\ result'[p] = NoResult
               \/ pc'[p] = "done" /\ result'[p] = Returned(hash[p])
       /\ Leaves(p, "awaitUpdWrite")
            => pc'[p] = "done" /\ result'[p] = Returned(hash[p])]_vars

C6_Witness ==
  \E p, q \in Procs :
    /\ pc[p] = "done" /\ pc[q] = "done"
    /\ errLog[p] = {"Failed to log transaction:"}
    /\ errLog[q] = {"Failed to update transaction status:"}
    /\ hash[p] # 0 /\ hash[q] # 0
    /\ result[p] = Returned(hash[p])
    /\ result[q] = Returned(hash[q])

\* C7: records are never deleted: between two intact states of the ledger
\* file, in a run without overlapping invocations, every persisted record
\* is still persisted after the step, in the same relative order.
C7_RecordsNeverDeleted ==
  [][(~interleaved' /\ fileState = "ok" /\ fileState' = "ok")
       => KeepsRecords(Persisted, Persisted')]_vars

\* C8: a status update whose id matches no record of the ledger leaves the
\* ledger file unchanged, logs no error and the invocation returns the id.
C8_UpdateMissingIdIsNoop ==
  [][\A p \in Procs :
       (Leaves(p, "awaitUpdRead") /\ Matches(Persisted, hash[p]) = {})
         => /\ UNCHANGED file
            /\ errLog'[p] = errLog[p]
            /\ pc'[p] = "done"
            /\ result'[p] = Returned(hash[p])]_vars

C8_Witness ==
  \E p \in Procs :
    /\ pc[p] = "done"
    /\ result[p] = Returned(hash[p])
    /\ hash[p] # 0
    /\ Matches(Persisted, hash[p]) = {}
    /\ Len(Persisted) >= 1
    /\ errLog[p] = {}

Malformed(args) ==
  \/ Arg(args, 1) = "check" /\ Arg(args, 2) # GoodAddress
  \/ /\ Arg(args, 1) = "transfer"
     /\ \/ Arg(args, 2) # GoodKey
        \/ Arg(args, 3) # GoodAddress
        \/ Arg(args, 4) \notin Amounts

ValidationErrors == {Rejected(ErrAddressFormat), Rejected(ErrKeyFormat), Rejected(ErrAmountFormat)}

\* C11: a check or transfer command with a malformed address, key or amount
\* ends with a validation error before any remote call and before any
\* ledger access: the instance has called nothing and the file is untouched.
C11_MalformedRejectedFirst ==
  [][\A p \in Procs :
       Malformed(argv'[p]) =>
         /\ pc'[p] = "done"
         /\ result'[p] \in ValidationErrors
         /\ trace'[p] = << >>
         /\ sendCalls'[p] = 0
         /\ UNCHANGED file]_vars

\* A transfer to a malformed address is rejected while the ledger holds the
\* record of an earlier transfer.
C11_Witness ==
  \E p \in Procs :
    /\ argv[p] = <<"transfer", GoodKey, BadAddress, <<"2">>>>
    /\ result[p] = Rejected(ErrAddressFormat)
    /\ fileState = "ok"
    /\ Len(Persisted) = 1

\* C12: the ids the network returns being distinct, no two records of the
\* persisted ledger have the same id.
C12_PersistedIdsDistinct ==
  \A i, j \in 1..Len(Persisted) : Persisted[i].id = Persisted[j].id => i = j

\* The ledger holds the records of two transfers.
C12_Witness ==
  /\ Len(Persisted) = 2
  /\ Persisted[1].id # Persisted[2].id

\* C13: getTransactionHistory never fails: the history command always ends
\* by printing a sequence, which is empty when the file is absent or not
\* parseable, and otherwise is either empty (the read failed) or holds every
\* record of the file in the order of the file.
C13_ReadAllNeverFails ==
  [][\A p \in Procs :
       Leaves(p, "awaitHistory") =>
         /\ pc'[p] = "done"
         /\ result'[p].kind = "history"
         /\ fileState # "ok" => result'[p].txs = << >>
         /\ result'[p].txs # << >> => Stringify(result'[p].txs) = fileData
         /\ UNCHANGED file]_vars

\* The history command printed the two records of the file, oldest first.
C13_Witness ==
  \E p \in Procs :
    /\ argv[p] = <<"history">>
    /\ result[p].kind = "history"
    /\ Len(result[p].txs) = 2
    /\ result[p].txs[1].id = 1
    /\ result[p].txs[2].id = 2

\* The append of the invocation's record has completed.
Appended(p) ==
  /\ hash[p] # 0
  /\ pc[p] \in {"awaitReceipt", "awaitUpdRead", "awaitUpdWrite", "done"}

\* The record appended by the invocation is not in the file.
RecordLost(p) == Appended(p) /\ Matches(Persisted, hash[p]) = {}

\* The invocation returned its id and the file does not show a terminal
\* status for it.
StatusLost(p) ==
  /\ pc[p] = "done"
  /\ result[p] = Returned(hash[p])
  /\ StatusAt(Persisted, hash[p]) \notin Terminal

\* C14: when every ledger read and write succeeds, a record appended or a
\* status set by an instance is missing from the file only after two
\* invocations have overlapped (the lost update of load, modify, write back).
C14_LostOnlyByOverlap ==
  \A p \in Procs : RecordLost(p) \/ StatusLost(p) => interleaved

\* Both instances appended and both writes succeeded, yet the record of one
\* is absent; it returned its id without a status having been stored.
C14_Witness ==
  \E p \in Procs : \E q \in Procs \ {p} :
    /\ RecordLost(p)
    /\ StatusLost(p)
    /\ Appended(q)
    /\ ~RecordLost(q)

\* Where the invocation continues when the step awaited at `at` succeeds.
Continues(at) ==
  CASE at = "awaitGasPrice" -> "awaitBalance"
    [] at = "awaitBalance" -> "awaitSend"
    [] at = "awaitSend" -> "awaitLogRead"
    [] OTHER -> "awaitGasPrice"

\* The invocation takes a step of steps 1-4 that is not the success of the
\* step: key derivation, a query, the affordability check or the submission
\* failed.
FailsEarly(p) ==
  /\ pc[p] \in {"idle", "awaitGasPrice", "awaitBalance", "awaitSend"}
  /\ pc'[p] # pc[p]
  /\ pc'[p] # Continues(pc[p])

Range(seq) == {seq[i] : i \in 1..Len(seq)}

\* C15: a failure of key derivation, of a query, of the affordability check
\* or of the submission ends the invocation at once with one wrapped error:
\* no remote call is made after it, no receipt wait is started and the
\* ledger is neither written by the step nor called by the invocation.
C15_EarlyFailureAborts ==
  [][\A p \in Procs :
       FailsEarly(p) =>
         /\ pc'[p] = "done"
         /\ result'[p] \in {Wrapped(ErrKey), Wrapped(ErrTransport), Wrapped(ErrInsufficient)}
         /\ trace'[p] = (IF pc[p] = "idle" THEN << >> ELSE trace[p])
         /\ Range(trace'[p]) \subseteq {"getGasPrice", "getBalance", "sendTransaction"}
         /\ hash'[p] = 0
         /\ UNCHANGED file]_vars

\* A submission was rejected while the ledger holds an earlier record: the
\* invocation ended with the wrapped error after exactly the three calls.
C15_Witness ==
  \E p \in Procs :
    /\ pc[p] = "done"
    /\ result[p] = Wrapped(ErrTransport)
    /\ trace[p] = <<"getGasPrice", "getBalance", "sendTransaction">>
    /\ Len(Persisted) = 1

\* The calls of a transfer in the order of sendMonad.
CallOrder ==
  <<"getGasPrice", "getBalance", "sendTransaction", "logTransaction",
    "waitForTransactionReceipt", "updateTransactionStatus">>

IsPrefix(s, t) == Len(s) <= Len(t) /\ s = SubSeq(t, 1, Len(s))

\* C16: an invocation submits, then appends the pending record, then waits
\* for the receipt, then finalizes. Every id in the ledger was returned by
\* an accepted submission, the record of an invocation is not in the ledger
\* before its append, and its status is not terminal before its update.
C16_SubmitAppendWaitFinalize ==
  /\ \A p \in Procs : IsPrefix(trace[p], CallOrder)
  /\ \A i \in 1..Len(Persisted) : Persisted[i].id \in 1..(nextId - 1)
  /\ \A p \in Procs :
       /\ hash[p] # 0 /\ pc[p] \in {"awaitLogRead", "awaitLogWrite"}
            => StatusAt(Persisted, hash[p]) = "absent"
       /\ hash[p] # 0 /\ pc[p] \in {"awaitReceipt", "awaitUpdRead", "awaitUpdWrite"}
            => StatusAt(Persisted, hash[p]) \in {"absent", "pending"}
       /\ hash[p] = 0 => ~IsPrefix(SubSeq(CallOrder, 1, 4), trace[p])

\* An invocation made all six calls in order and its record is finalized.
C16_Witness ==
  \E p \in Procs :
    /\ pc[p] = "done"
    /\ trace[p] = CallOrder
    /\ StatusAt(Persisted, hash[p]) \in Terminal

\* The two records differ at most in their status.
SameButStatus(r1, r2) == r2 = [r1 EXCEPT !.status = r2.status]

AppendFailed(p) == "Failed to log transaction:" \in errLog[p]

\* C18: when the append of the pending record failed to persist, the
\* status update does not create the record: it finds no id, writes nothing
\* and reports nothing, and the ledger holds no record with the id, also
\* when the invocation has returned the id.
C18_FailedAppendNotRecreated ==
  \A p \in Procs :
    AppendFailed(p) =>
      /\ Matches(Persisted, hash[p]) = {}
      /\ pc[p] \in {"awaitReceipt", "awaitUpdRead", "done"}
      /\ errLog[p] = {"Failed to log transaction:"}
      /\ pc[p] = "done" => result[p] \in {Returned(hash[p]), Wrapped(ErrTransport)}

\* The append failed and left the file with the record of an earlier
\* transfer; the invocation returned its id, which is not in the ledger.
C18_Witness ==
  \E p \in Procs :
    /\ AppendFailed(p)
    /\ pc[p] = "done"
    /\ result[p] = Returned(hash[p])
    /\ Len(Persisted) = 1
    /\ Persisted[1].id # hash[p]

\* The network eventually reports the outcome of the transaction whose
\* receipt the invocation waits for.
ReceiptArrives(p) == (pc[p] = "awaitReceipt") ~> (pc[p] # "awaitReceipt")

\* C19: every remote call being eventually answered, an invocation whose
\* receipt wait is eventually answered ends: the receipt wait is the only
\* step at which an invocation can stay forever.
C19_TransferEnds ==
  \A p \in Procs : ReceiptArrives(p) => (Running(p) ~> (pc[p] = "done"))

\* An invocation went through the receipt wait and ended by returning.
C19_Witness ==
  \E p \in Procs :
    /\ pc[p] = "done"
    /\ result[p] = Returned(hash[p])
    /\ receipt[p] \in ReceiptStatuses

====
